---- MODULE Spec2Model ----
(***************************************************************************)
(* Semialign / Align for fp-ts-contrib: the four instances (option, array, *)
(* nonEmptyArray, record) of src/Semialign.ts and the Align extension and  *)
(* derived combinators of src/Align.ts.                                    *)
(*                                                                         *)
(* Every operation is a pure function.  The state machine calls one        *)
(* operation per step on inputs drawn from bounded sets and records the    *)
(* inputs, the outcome of the call (a returned value, or a thrown          *)
(* TypeError) and the sequence of arguments the callback f was invoked     *)
(* with.                                                                   *)
(***************************************************************************)
EXTENDS Integers, Sequences, FiniteSets, TLC

VARIABLES op, inst, fa, fb, f, out, calls

vars == <<op, inst, fa, fb, f, out, calls>>

(***************************************************************************)
(* Bounds of the model.                                                    *)
(***************************************************************************)
MaxLen == 2
MaxVal == 1

(***************************************************************************)
(* Element values.  An element is a number n, carried as V(n) so that an   *)
(* element and a These built over elements are always comparable.          *)
(***************************************************************************)
V(n) == [tag |-> "V", v |-> n]

Vals == {V(n) : n \in 0..MaxVal}

undefined == [tag |-> "undefined"]

(***************************************************************************)
(* fp-ts These: this_(a), that(b), both(a, b).                             *)
(***************************************************************************)
this_(a) == [tag |-> "This", l |-> a]

that(b) == [tag |-> "That", r |-> b]

both(a, b) == [tag |-> "Both", l |-> a, r |-> b]

(***************************************************************************)
(* fp-ts Option: none, some(a).                                            *)
(***************************************************************************)
none == [tag |-> "None"]

some(a) == [tag |-> "Some", value |-> a]

isSome(o) == o.tag = "Some"

isNone(o) == o.tag = "None"

(***************************************************************************)
(* fp-ts NonEmptyArray: new NonEmptyArray(head, tail).                     *)
(***************************************************************************)
NonEmptyArray(h, t) == [head |-> h, tail |-> t]

(***************************************************************************)
(* semigroupSum.concat: x + y on numbers.                                  *)
(***************************************************************************)
semigroupSumConcat(x, y) == V(x.v + y.v)

(***************************************************************************)
(* Functions passed as arguments are named by descriptors <<name, ...>>    *)
(* and applied by Apply.                                                   *)
(*   <<"identity">>      x => x                                            *)
(*   <<"this_">>,<<"that">>  the These constructors                        *)
(*   <<"dup">>           a => both(a, a)                                   *)
(*   <<"succ">>          n => n + 1          <<"zero">>  n => 0            *)
(*   <<"shape">>         These => 0 / 1 / 2 for This / That / Both        *)
(*   <<"weigh">>         x.fold(a => a, b => b + 10, (a, b) => a + 2b + 20)*)
(*   <<"sconcat">>       xy => xy.fold(identity, identity, S.concat)       *)
(*   <<"bimap", g, h>>   t => t.bimap(g, h)                                *)
(*   <<"assoc">>, <<"unassoc">>, <<"swap">>  re-association, swap of These *)
(*   <<"some">>          the Option constructor                            *)
(*   <<"tuple">>         (a, b) => tuple(a, b)                             *)
(*   <<"pad">>           (ma, mb) => ma.getOrElse(7) + 10 * mb.getOrElse(7)*)
(*   <<"lpad">>          (ma, b) => ma.getOrElse(7) + 10 * b               *)
(*   <<"rpad">>          (a, mb) => a + 10 * mb.getOrElse(7)               *)
(*   <<"constUndefined">>, <<"constNone">>   (a, b) => undefined / none    *)
(*   <<"padZipWithLambda", g>>, <<"lpadZipWithLambda", g>>, <<"flip", g>>  *)
(*                       the lambdas padZipWith, lpadZipWith and           *)
(*                       rpadZipWith of Align.ts build around g            *)
(* A call with two arguments takes the pair <<a, b>>.                      *)
(***************************************************************************)
(* Mutant of sconcat: Both keeps the left value and never calls S.concat.  *)
sconcatKeepLeft(xy) ==
  CASE xy.tag = "This" -> xy.l
    [] xy.tag = "That" -> xy.r
    [] xy.tag = "Both" -> xy.l

sconcat(xy) ==
  CASE xy.tag = "This" -> xy.l
    [] xy.tag = "That" -> xy.r
    [] xy.tag = "Both" -> semigroupSumConcat(xy.l, xy.r)

(***************************************************************************)
(* These.assoc of the file documentation of Semialign.ts:                  *)
(*   assoc<A, B, C>(fa: These<A, These<B, C>>): These<These<A, B>, C>      *)
(* Given a right component that is no These, folding it is a TypeError.    *)
(***************************************************************************)
assoc(t) ==
  CASE t.tag = "This" -> this_(this_(t.l))
    [] t.tag = "That" /\ t.r.tag = "This" -> this_(that(t.r.l))
    [] t.tag = "That" /\ t.r.tag = "That" -> that(t.r.r)
    [] t.tag = "That" /\ t.r.tag = "Both" -> both(that(t.r.l), t.r.r)
    [] t.tag = "Both" /\ t.r.tag = "This" -> this_(both(t.l, t.r.l))
    [] t.tag = "Both" /\ t.r.tag = "That" -> both(this_(t.l), t.r.r)
    [] t.tag = "Both" /\ t.r.tag = "Both" -> both(both(t.l, t.r.l), t.r.r)
    [] OTHER -> [tag |-> "TypeError"]

(***************************************************************************)
(* The inverse re-association, These<These<A, B>, C> to                    *)
(* These<A, These<B, C>>.                                                  *)
(***************************************************************************)
unassoc(t) ==
  CASE t.tag = "That" -> that(that(t.r))
    [] t.tag = "This" /\ t.l.tag = "This" -> this_(t.l.l)
    [] t.tag = "This" /\ t.l.tag = "That" -> that(this_(t.l.r))
    [] t.tag = "This" /\ t.l.tag = "Both" -> both(t.l.l, this_(t.l.r))
    [] t.tag = "Both" /\ t.l.tag = "This" -> both(t.l.l, that(t.r))
    [] t.tag = "Both" /\ t.l.tag = "That" -> that(both(t.l.r, t.r))
    [] t.tag = "Both" /\ t.l.tag = "Both" -> both(t.l.l, both(t.l.r, t.r))
    [] OTHER -> [tag |-> "TypeError"]

(***************************************************************************)
(* These.swap: LeftOnly(a) to RightOnly(a), RightOnly(b) to LeftOnly(b),   *)
(* Both(a, b) to Both(b, a).                                               *)
(***************************************************************************)
swap(t) ==
  CASE t.tag = "This" -> that(t.l)
    [] t.tag = "That" -> this_(t.r)
    [] t.tag = "Both" -> both(t.r, t.l)

getOrElse(o, d) == IF isSome(o) THEN o.value.v ELSE d

RECURSIVE Apply(_, _)
bimap(t, g, h) ==
  CASE t.tag = "This" -> this_(Apply(g, t.l))
    [] t.tag = "That" -> that(Apply(h, t.r))
    [] t.tag = "Both" -> both(Apply(g, t.l), Apply(h, t.r))

(***************************************************************************)
(* rpadZipWith's lambda, Align.ts line 222: (a, b) => f(b, a)              *)
(***************************************************************************)
(* Mutant of rpadZipWith's lambda: the arguments are not exchanged.        *)
flipNot(fn, p) == Apply(fn, p)

flip(fn, p) == Apply(fn, <<p[2], p[1]>>)

(***************************************************************************)
(* lpadZipWith's lambda, Align.ts line 183:                                *)
(*   (ma, mb) => mb.map(b => f(ma, b))                                     *)
(* Option.map of fp-ts 1.x wraps whatever f returns in some.               *)
(***************************************************************************)
(* Mutant of lpadZipWith's lambda: chain instead of map, so that a none    *)
(* returned by f is dropped by catOptions.                                 *)
lpadZipWithLambdaChain(fn, p) ==
  IF isSome(p[2]) /\ fn[1] # "constNone" THEN some(Apply(fn, <<p[1], p[2].value>>)) ELSE none

lpadZipWithLambda(fn, p) ==
  IF isSome(p[2]) THEN some(Apply(fn, <<p[1], p[2].value>>)) ELSE none

(***************************************************************************)
(* padZipWith's lambda, Align.ts line 163:                                 *)
(*   ab => ab.bimap(some, some).fold(a => f(a, none), b => f(none, b),     *)
(*                                   (a, b) => f(a, b))                    *)
(* padZipWithFold(t) is the pair of arguments the fold hands to f, and     *)
(* padZipWithArgs(ab) that pair for the These ab of alignWith.             *)
(***************************************************************************)
(* Mutant of the fold: a right-only value is handed to f as the left one.  *)
padZipWithFoldLeft(t) ==
  CASE t.tag = "This" -> <<t.l, none>>
    [] t.tag = "That" -> <<t.r, none>>
    [] t.tag = "Both" -> <<t.l, t.r>>

padZipWithFold(t) ==
  CASE t.tag = "This" -> <<t.l, none>>
    [] t.tag = "That" -> <<none, t.r>>
    [] t.tag = "Both" -> <<t.l, t.r>>

padZipWithArgs(ab) == padZipWithFold(bimap(ab, <<"some">>, <<"some">>))

padZipWithLambda(fn, ab) == Apply(fn, padZipWithArgs(ab))

(***************************************************************************)
(* Application of a function of the model, named by a tuple.               *)
(***************************************************************************)
Apply(fn, x) ==
  CASE fn[1] = "identity" -> x
    [] fn[1] = "this_" -> this_(x)
    [] fn[1] = "that" -> that(x)
    [] fn[1] = "dup" -> both(x, x)
    [] fn[1] = "succ" -> V(x.v + 1)
    [] fn[1] = "zero" -> V(0)
    [] fn[1] = "shape" ->
         V(CASE x.tag = "This" -> 0 [] x.tag = "That" -> 1 [] x.tag = "Both" -> 2)
    [] fn[1] = "weigh" ->
         V(CASE x.tag = "This" -> x.l.v
             [] x.tag = "That" -> x.r.v + 10
             [] x.tag = "Both" -> x.l.v + 2 * x.r.v + 20)
    [] fn[1] = "sconcat" -> sconcat(x)
    [] fn[1] = "bimap" -> bimap(x, fn[2], fn[3])
    [] fn[1] = "assoc" -> assoc(x)
    [] fn[1] = "unassoc" -> unassoc(x)
    [] fn[1] = "swap" -> swap(x)
    [] fn[1] = "some" -> some(x)
    [] fn[1] = "tuple" -> <<x[1], x[2]>>
    [] fn[1] = "pad" -> V(getOrElse(x[1], 7) + 10 * getOrElse(x[2], 7))
    [] fn[1] = "lpad" -> V(getOrElse(x[1], 7) + 10 * x[2].v)
    [] fn[1] = "rpad" -> V(x[1].v + 10 * getOrElse(x[2], 7))
    [] fn[1] = "constUndefined" -> undefined
    [] fn[1] = "constNone" -> none
    [] fn[1] = "flip" -> flip(fn[2], x)
    [] fn[1] = "lpadZipWithLambda" -> lpadZipWithLambda(fn[2], x)
    [] fn[1] = "padZipWithArgs" -> padZipWithArgs(x)
    [] fn[1] = "padZipWithLambda" -> padZipWithLambda(fn[2], x)

identity == <<"identity">>

TheseFns == {<<"identity">>, <<"shape">>, <<"weigh">>}

ValFns == {<<"identity">>, <<"succ">>, <<"zero">>}

PadFns == {<<"tuple">>, <<"pad">>}

LpadFns == {<<"tuple">>, <<"lpad">>, <<"constUndefined">>, <<"constNone">>}

RpadFns == {<<"tuple">>, <<"rpad">>, <<"constUndefined">>, <<"constNone">>}

(***************************************************************************)
(* Outcome of a call: a returned value, or a thrown TypeError; with the    *)
(* arguments f was invoked with, in order, up to the return or the throw.  *)
(***************************************************************************)
Ok(v, cs) == [status |-> "ok", val |-> v, calls |-> cs]

Throw(cs) == [status |-> "throw", calls |-> cs]

Res(o) == IF o.status = "ok" THEN [status |-> "ok", val |-> o.val] ELSE [status |-> "throw"]

RECURSIVE mapSeq(_, _)
mapSeq(s, fn) == IF s = <<>> THEN <<>> ELSE <<Apply(fn, Head(s))>> \o mapSeq(Tail(s), fn)

(***************************************************************************)
(* option.alignWith, option.align                                          *)
(***************************************************************************)
(* Mutant of option.alignWith: the two one-sided branches build the wrong  *)
(* constructor.                                                            *)
optionAlignWithSwapped(oa, ob, fn) ==
  IF isSome(oa) /\ isSome(ob) THEN
    Ok(some(Apply(fn, both(oa.value, ob.value))), <<both(oa.value, ob.value)>>)
  ELSE IF isNone(oa) /\ isSome(ob) THEN
    Ok(some(Apply(fn, this_(ob.value))), <<this_(ob.value)>>)
  ELSE IF isSome(oa) /\ isNone(ob) THEN
    Ok(some(Apply(fn, that(oa.value))), <<that(oa.value)>>)
  ELSE
    Ok(none, <<>>)

optionAlignWith(oa, ob, fn) ==
  IF isSome(oa) /\ isSome(ob) THEN
    Ok(some(Apply(fn, both(oa.value, ob.value))), <<both(oa.value, ob.value)>>)
  ELSE IF isNone(oa) /\ isSome(ob) THEN
    Ok(some(Apply(fn, that(ob.value))), <<that(ob.value)>>)
  ELSE IF isSome(oa) /\ isNone(ob) THEN
    Ok(some(Apply(fn, this_(oa.value))), <<this_(oa.value)>>)
  ELSE
    Ok(none, <<>>)

optionAlign(oa, ob) == optionAlignWith(oa, ob, identity)

(***************************************************************************)
(* array.alignWith, array.align.  fc[i] = x on a JavaScript array: SetAt.  *)
(* Indices are 0-based as in the source; a TLA+ sequence is 1-based.       *)
(***************************************************************************)
Min(a, b) == IF a < b THEN a ELSE b

Max(a, b) == IF a > b THEN a ELSE b

SetAt(fc, i, x) ==
  IF i < Len(fc) THEN [fc EXCEPT ![i + 1] = x]
  ELSE fc \o [k \in 1..(i - Len(fc)) |-> undefined] \o <<x>>

(* Mutant of the first loop of array.alignWith: both(fb[i], fa[i]).        *)
RECURSIVE arrayBothLoopSwapped(_, _, _, _, _, _)
arrayBothLoopSwapped(i, len, xs, ys, fn, acc) ==
  IF i < len THEN
    arrayBothLoopSwapped(i + 1, len, xs, ys, fn,
      [fc |-> SetAt(acc.fc, i, Apply(fn, both(ys[i + 1], xs[i + 1]))),
       calls |-> Append(acc.calls, both(ys[i + 1], xs[i + 1]))])
  ELSE acc

RECURSIVE arrayBothLoop(_, _, _, _, _, _)
arrayBothLoop(i, len, xs, ys, fn, acc) ==
  IF i < len THEN
    arrayBothLoop(i + 1, len, xs, ys, fn,
      [fc |-> SetAt(acc.fc, i, Apply(fn, both(xs[i + 1], ys[i + 1]))),
       calls |-> Append(acc.calls, both(xs[i + 1], ys[i + 1]))])
  ELSE acc

(* Mutant of the second loop of array.alignWith: both(a, a), not this_(a). *)
RECURSIVE arrayThisLoopBoth(_, _, _, _, _)
arrayThisLoopBoth(i, aLen, xs, fn, acc) ==
  IF i < aLen THEN
    arrayThisLoopBoth(i + 1, aLen, xs, fn,
      [fc |-> SetAt(acc.fc, i, Apply(fn, both(xs[i + 1], xs[i + 1]))),
       calls |-> Append(acc.calls, both(xs[i + 1], xs[i + 1]))])
  ELSE acc

RECURSIVE arrayThisLoop(_, _, _, _, _)
arrayThisLoop(i, aLen, xs, fn, acc) ==
  IF i < aLen THEN
    arrayThisLoop(i + 1, aLen, xs, fn,
      [fc |-> SetAt(acc.fc, i, Apply(fn, this_(xs[i + 1]))),
       calls |-> Append(acc.calls, this_(xs[i + 1]))])
  ELSE acc

(* Mutant of the last loop of array.alignWith: this_ instead of that.      *)
RECURSIVE arrayThatLoopAsThis(_, _, _, _, _)
arrayThatLoopAsThis(i, bLen, ys, fn, acc) ==
  IF i < bLen THEN
    arrayThatLoopAsThis(i + 1, bLen, ys, fn,
      [fc |-> SetAt(acc.fc, i, Apply(fn, this_(ys[i + 1]))),
       calls |-> Append(acc.calls, this_(ys[i + 1]))])
  ELSE acc

RECURSIVE arrayThatLoop(_, _, _, _, _)
arrayThatLoop(i, bLen, ys, fn, acc) ==
  IF i < bLen THEN
    arrayThatLoop(i + 1, bLen, ys, fn,
      [fc |-> SetAt(acc.fc, i, Apply(fn, that(ys[i + 1]))),
       calls |-> Append(acc.calls, that(ys[i + 1]))])
  ELSE acc

(* Mutant of array.alignWith: a plain zip, the longer input is truncated.  *)
arrayAlignWithZip(xs, ys, fn) ==
  LET s1 == arrayBothLoop(0, Min(Len(xs), Len(ys)), xs, ys, fn, [fc |-> <<>>, calls |-> <<>>])
  IN Ok(s1.fc, s1.calls)

arrayAlignWith(xs, ys, fn) ==
  LET aLen == Len(xs)
      bLen == Len(ys)
      len == Min(aLen, bLen)
      s1 == arrayBothLoop(0, len, xs, ys, fn, [fc |-> <<>>, calls |-> <<>>])
      s2 == IF aLen > bLen THEN arrayThisLoop(bLen, aLen, xs, fn, s1)
            ELSE arrayThatLoop(aLen, bLen, ys, fn, s1)
  IN Ok(s2.fc, s2.calls)

arrayAlign(xs, ys) == arrayAlignWith(xs, ys, identity)

(***************************************************************************)
(* nonEmptyArray.alignWith, nonEmptyArray.align                            *)
(***************************************************************************)
(* Mutant of nonEmptyArray.alignWith: f is not applied to the head.        *)
nonEmptyArrayAlignWithRawHead(na, nb, fn) ==
  LET h == both(na.head, nb.head)
      t == arrayAlignWith(na.tail, nb.tail, fn)
  IN Ok(NonEmptyArray(h, t.val), t.calls)

nonEmptyArrayAlignWith(na, nb, fn) ==
  LET h == both(na.head, nb.head)
      t == arrayAlignWith(na.tail, nb.tail, fn)
  IN Ok(NonEmptyArray(Apply(fn, h), t.val), <<h>> \o t.calls)

(* Mutant of nonEmptyArray.align: the tail of fa is aligned with itself.   *)
nonEmptyArrayAlignSameTail(na, nb) ==
  LET t == arrayAlign(na.tail, na.tail)
  IN Ok(NonEmptyArray(both(na.head, nb.head), t.val), t.calls)

nonEmptyArrayAlign(na, nb) ==
  LET t == arrayAlign(na.tail, nb.tail)
  IN Ok(NonEmptyArray(both(na.head, nb.head), t.val), t.calls)

(***************************************************************************)
(* Records: a Record<string, A> is a function from its own keys to values. *)
(* Object.keys(o) lists the own keys in the object's insertion order; the  *)
(* order is an input of the call (a sequence listing every key of Keys).   *)
(***************************************************************************)
Keys == {"a", "b", "hasOwnProperty"}

KeyOrder == <<"a", "b", "hasOwnProperty">>

emptyRecord == [k \in {} |-> undefined]

objectKeys(o, order) == SelectSeq(order, LAMBDA k : k \in DOMAIN o)

(***************************************************************************)
(* o.hasOwnProperty(key): the property lookup finds the record's own       *)
(* "hasOwnProperty" entry when it has one, which is an element value and   *)
(* not a function, so the call throws a TypeError; otherwise it finds      *)
(* Object.prototype.hasOwnProperty.                                        *)
(***************************************************************************)
hasOwnProperty(o, key) ==
  IF "hasOwnProperty" \in DOMAIN o THEN [status |-> "throw"]
  ELSE [status |-> "ok", val |-> key \in DOMAIN o]

SetKey(r, key, x) == [k \in DOMAIN r \cup {key} |-> IF k = key THEN x ELSE r[k]]

(***************************************************************************)
(* recordAlignWith: first loop over Object.keys(fa), second loop over      *)
(* Object.keys(fb).  acc is [status, r, calls].                            *)
(***************************************************************************)
RECURSIVE recordLeftLoop(_, _, _, _, _)
recordLeftLoop(keys, ra, rb, fn, acc) ==
  IF keys = <<>> \/ acc.status = "throw" THEN acc
  ELSE LET key == Head(keys)
           has == hasOwnProperty(rb, key)
       IN IF has.status = "throw" THEN [acc EXCEPT !.status = "throw"]
          ELSE LET t == IF has.val THEN both(ra[key], rb[key]) ELSE this_(ra[key])
               IN recordLeftLoop(Tail(keys), ra, rb, fn,
                    [status |-> "ok",
                     r |-> SetKey(acc.r, key, Apply(fn, t)),
                     calls |-> Append(acc.calls, t)])

(* Mutant of the second loop of recordAlignWith: this_ instead of that.    *)
RECURSIVE recordRightLoopAsThis(_, _, _, _, _)
recordRightLoopAsThis(keys, ra, rb, fn, acc) ==
  IF keys = <<>> \/ acc.status = "throw" THEN acc
  ELSE LET key == Head(keys)
           has == hasOwnProperty(ra, key)
       IN IF has.status = "throw" THEN [acc EXCEPT !.status = "throw"]
          ELSE IF ~has.val THEN
                 recordRightLoopAsThis(Tail(keys), ra, rb, fn,
                   [status |-> "ok",
                    r |-> SetKey(acc.r, key, Apply(fn, this_(rb[key]))),
                    calls |-> Append(acc.calls, this_(rb[key]))])
               ELSE recordRightLoopAsThis(Tail(keys), ra, rb, fn, acc)

RECURSIVE recordRightLoop(_, _, _, _, _)
recordRightLoop(keys, ra, rb, fn, acc) ==
  IF keys = <<>> \/ acc.status = "throw" THEN acc
  ELSE LET key == Head(keys)
           has == hasOwnProperty(ra, key)
       IN IF has.status = "throw" THEN [acc EXCEPT !.status = "throw"]
          ELSE IF ~has.val THEN
                 recordRightLoop(Tail(keys), ra, rb, fn,
                   [status |-> "ok",
                    r |-> SetKey(acc.r, key, Apply(fn, that(rb[key]))),
                    calls |-> Append(acc.calls, that(rb[key]))])
               ELSE recordRightLoop(Tail(keys), ra, rb, fn, acc)

(* Mutant of recordAlignWith: the second loop is missing.                  *)
recordAlignWithNoRightLoop(ra, rb, fn, order) ==
  LET s0 == [status |-> "ok", r |-> emptyRecord, calls |-> <<>>]
      s1 == recordLeftLoop(objectKeys(ra, order), ra, rb, fn, s0)
  IN IF s1.status = "ok" THEN Ok(s1.r, s1.calls) ELSE Throw(s1.calls)

recordAlignWith(ra, rb, fn, order) ==
  LET s0 == [status |-> "ok", r |-> emptyRecord, calls |-> <<>>]
      s1 == recordLeftLoop(objectKeys(ra, order), ra, rb, fn, s0)
      s2 == recordRightLoop(objectKeys(rb, order), ra, rb, fn, s1)
  IN IF s2.status = "ok" THEN Ok(s2.r, s2.calls) ELSE Throw(s2.calls)

recordAlign(ra, rb, order) == recordAlignWith(ra, rb, identity, order)

(***************************************************************************)
(* Align.ts: nil of the three Align instances.                             *)
(***************************************************************************)
optionNil == none

arrayNil == <<>>

recordNil == emptyRecord

(***************************************************************************)
(* The instances, by name: F.alignWith, F.align, F.map, F.nil.             *)
(***************************************************************************)
Instances == {"option", "array", "nonEmptyArray", "record"}

AlignInstances == {"option", "array", "record"}

alignWith(F, x, y, fn, order) ==
  CASE F = "option" -> optionAlignWith(x, y, fn)
    [] F = "array" -> arrayAlignWith(x, y, fn)
    [] F = "nonEmptyArray" -> nonEmptyArrayAlignWith(x, y, fn)
    [] F = "record" -> recordAlignWith(x, y, fn, order)

align(F, x, y, order) ==
  CASE F = "option" -> optionAlign(x, y)
    [] F = "array" -> arrayAlign(x, y)
    [] F = "nonEmptyArray" -> nonEmptyArrayAlign(x, y)
    [] F = "record" -> recordAlign(x, y, order)

nil(F) ==
  CASE F = "option" -> optionNil
    [] F = "array" -> arrayNil
    [] F = "record" -> recordNil

map(F, x, fn) ==
  CASE F = "option" -> IF isSome(x) THEN some(Apply(fn, x.value)) ELSE none
    [] F = "array" -> mapSeq(x, fn)
    [] F = "nonEmptyArray" -> NonEmptyArray(Apply(fn, x.head), mapSeq(x.tail, fn))
    [] F = "record" -> [k \in DOMAIN x |-> Apply(fn, x[k])]

(***************************************************************************)
(* salign(F, S) with S = semigroupSum.                                     *)
(***************************************************************************)
salign(F, fx, fy, order) == alignWith(F, fx, fy, <<"sconcat">>, order)

(***************************************************************************)
(* padZipWith(F), padZip(F).  The invocations recorded are those of the    *)
(* caller's f: one per invocation of padZipWith's lambda.                  *)
(***************************************************************************)
padZipWithCalls(o) ==
  IF o.status = "ok" THEN Ok(o.val, mapSeq(o.calls, <<"padZipWithArgs">>))
  ELSE Throw(mapSeq(o.calls, <<"padZipWithArgs">>))

padZipWith(F, x, y, fn, order) ==
  padZipWithCalls(alignWith(F, x, y, <<"padZipWithLambda", fn>>, order))

(* Mutant of padZip: the pair is built the other way round.                *)
padZipFlipped(F, x, y, order) == padZipWith(F, x, y, <<"flip", <<"tuple">>>>, order)

padZip(F, x, y, order) == padZipWith(F, x, y, <<"tuple">>, order)

(***************************************************************************)
(* catOptions of fp-ts Array: the values of the some elements, in order.   *)
(***************************************************************************)
RECURSIVE catOptions(_)
catOptions(as) ==
  IF as = <<>> THEN <<>>
  ELSE IF isSome(Head(as)) THEN <<Head(as).value>> \o catOptions(Tail(as))
  ELSE catOptions(Tail(as))

(***************************************************************************)
(* lpadZipWith, lpadZip, rpadZipWith, rpadZip.  The invocations recorded   *)
(* are those of the caller's f: lpadZipWith's lambda invokes it when mb is *)
(* some, and rpadZipWith's lambda hands it the flipped pair.               *)
(***************************************************************************)
RECURSIVE lpadCalls(_)
lpadCalls(ps) ==
  IF ps = <<>> THEN <<>>
  ELSE IF isSome(Head(ps)[2]) THEN <<<<Head(ps)[1], Head(ps)[2].value>>>> \o lpadCalls(Tail(ps))
  ELSE lpadCalls(Tail(ps))

lpadZipWithResult(o) == Ok(catOptions(o.val), lpadCalls(o.calls))

lpadZipWith(xs, ys, fn) ==
  lpadZipWithResult(padZipWith("array", xs, ys, <<"lpadZipWithLambda", fn>>, KeyOrder))

lpadZip(xs, ys) == lpadZipWith(xs, ys, <<"tuple">>)

rpadZipWithResult(o) ==
  Ok(o.val, [i \in 1..Len(o.calls) |-> <<o.calls[i][2], o.calls[i][1]>>])

rpadZipWith(xs, ys, fn) == rpadZipWithResult(lpadZipWith(ys, xs, <<"flip", fn>>))

rpadZip(xs, ys) == rpadZipWith(xs, ys, <<"tuple">>)

(***************************************************************************)
(* Inputs.                                                                 *)
(***************************************************************************)
Options == {none} \cup {some(a) : a \in Vals}

Arrays(n) == UNION {[1..k -> Vals] : k \in 0..n}

NonEmptyArrays == {NonEmptyArray(h, t) : h \in Vals, t \in Arrays(MaxLen - 1)}

Records == UNION {[D -> Vals] : D \in SUBSET Keys}

Containers(F) ==
  CASE F = "option" -> Options
    [] F = "array" -> Arrays(MaxLen)
    [] F = "nonEmptyArray" -> NonEmptyArrays
    [] F = "record" -> Records

KeyOrders == {s \in [1..Cardinality(Keys) -> Keys] : \A k \in Keys : \E i \in DOMAIN s : s[i] = k}

OrdersOf(F) == IF F = "record" THEN KeyOrders ELSE {KeyOrder}

(***************************************************************************)
(* The state machine.  Init draws the instance and the two containers; one *)
(* step calls one operation on them (choosing the callback and, for a      *)
(* record, the insertion order Object.keys reports) and records the        *)
(* outcome and the callback's invocations.  A call is the last step.       *)
(***************************************************************************)
Init ==
  /\ op = "none"
  /\ inst \in Instances
  /\ fa \in Containers(inst)
  /\ fb \in Containers(inst)
  /\ f = <<"none">>
  /\ out = [status |-> "none"]
  /\ calls = <<>>

Call(name, fn, o) ==
  /\ op = "none"
  /\ op' = name
  /\ f' = fn
  /\ out' = Res(o)
  /\ calls' = o.calls
  /\ UNCHANGED <<inst, fa, fb>>

AlignWith ==
  \E fn \in TheseFns, order \in OrdersOf(inst) :
    Call("alignWith", fn, alignWith(inst, fa, fb, fn, order))

Align ==
  \E order \in OrdersOf(inst) :
    Call("align", identity, align(inst, fa, fb, order))

Salign ==
  /\ inst \in AlignInstances
  /\ \E order \in OrdersOf(inst) :
       Call("salign", <<"sconcat">>, salign(inst, fa, fb, order))

PadZipWith ==
  /\ inst \in AlignInstances
  /\ \E fn \in PadFns, order \in OrdersOf(inst) :
       Call("padZipWith", fn, padZipWith(inst, fa, fb, fn, order))

PadZip ==
  /\ inst \in AlignInstances
  /\ \E order \in OrdersOf(inst) :
       Call("padZip", <<"tuple">>, padZip(inst, fa, fb, order))

LpadZipWith ==
  /\ inst = "array"
  /\ \E fn \in LpadFns : Call("lpadZipWith", fn, lpadZipWith(fa, fb, fn))

LpadZip ==
  /\ inst = "array"
  /\ Call("lpadZip", <<"tuple">>, lpadZip(fa, fb))

RpadZipWith ==
  /\ inst = "array"
  /\ \E fn \in RpadFns : Call("rpadZipWith", fn, rpadZipWith(fa, fb, fn))

RpadZip ==
  /\ inst = "array"
  /\ Call("rpadZip", <<"tuple">>, rpadZip(fa, fb))

Next ==
  \/ AlignWith \/ Align \/ Salign
  \/ PadZipWith \/ PadZip
  \/ LpadZipWith \/ LpadZip \/ RpadZipWith \/ RpadZip

Spec == Init /\ [][Next]_vars

(***************************************************************************)
(* Helpers of the properties: the result of mapping over an outcome, and   *)
(* of aligning two outcomes (a throw in an argument propagates).  Records  *)
(* are re-aligned here under the fixed order KeyOrder.                     *)
(***************************************************************************)
mapRes(F, o, fn) ==
  IF o.status = "ok" THEN [status |-> "ok", val |-> map(F, o.val, fn)]
  ELSE [status |-> "throw"]

alignRes(F, ox, oy) ==
  IF ox.status = "ok" /\ oy.status = "ok" THEN Res(align(F, ox.val, oy.val, KeyOrder))
  ELSE [status |-> "throw"]

Value(x) == [status |-> "ok", val |-> x]

(***************************************************************************)
(* C1.  array.align(xs, ys) has length max(len(xs), len(ys)); element i is *)
(* Both(xs[i], ys[i]) for i < min(len), LeftOnly(xs[i]) for                *)
(* len(ys) <= i < len(xs), RightOnly(ys[i]) for len(xs) <= i < len(ys).    *)
(***************************************************************************)
C1_ArrayAlign ==
  (op = "align" /\ inst = "array") =>
    /\ out.status = "ok"
    /\ Len(out.val) = Max(Len(fa), Len(fb))
    /\ \A i \in 1..Len(out.val) :
         out.val[i] = IF i <= Len(fa) /\ i <= Len(fb) THEN both(fa[i], fb[i])
                      ELSE IF i <= Len(fa) THEN this_(fa[i])
                      ELSE that(fb[i])

C1_Witness ==
  /\ op = "align" /\ inst = "array"
  /\ Len(fa) = 2 /\ Len(fb) = 1
  /\ out.val = <<both(fa[1], fb[1]), this_(fa[2])>>

(***************************************************************************)
(* C2.  option.align(fa, fb) is some(Both(a, b)), some(LeftOnly(a)),       *)
(* some(RightOnly(b)) or none according to which of fa, fb are present;    *)
(* when neither is, option.alignWith never invokes f.                      *)
(***************************************************************************)
C2_OptionAlign ==
  /\ (op = "align" /\ inst = "option") =>
       out = Value(IF isSome(fa) /\ isSome(fb) THEN some(both(fa.value, fb.value))
                   ELSE IF isSome(fa) THEN some(this_(fa.value))
                   ELSE IF isSome(fb) THEN some(that(fb.value))
                   ELSE none)
  /\ (op = "alignWith" /\ inst = "option" /\ isNone(fa) /\ isNone(fb)) =>
       (out = Value(none) /\ calls = <<>>)
  /\ (op = "alignWith" /\ inst = "option" /\ (isSome(fa) \/ isSome(fb))) =>
       Len(calls) = 1

C2_Witness ==
  /\ op = "alignWith" /\ inst = "option"
  /\ isNone(fa) /\ isNone(fb)
  /\ out = Value(none)

(***************************************************************************)
(* C3.  The key set of record.align(m1, m2) is the union of the key sets   *)
(* of m1 and m2; a key in both maps to Both(m1[k], m2[k]), a key only in   *)
(* m1 to LeftOnly(m1[k]), a key only in m2 to RightOnly(m2[k]).            *)
(***************************************************************************)
C3_RecordAlign ==
  (op = "align" /\ inst = "record") =>
    /\ out.status = "ok"
    /\ DOMAIN out.val = DOMAIN fa \cup DOMAIN fb
    /\ \A k \in DOMAIN out.val :
         out.val[k] = IF k \in DOMAIN fa /\ k \in DOMAIN fb THEN both(fa[k], fb[k])
                      ELSE IF k \in DOMAIN fa THEN this_(fa[k])
                      ELSE that(fb[k])

(***************************************************************************)
(* C4.  nonEmptyArray.align(fa, fb) has head Both(fa.head, fb.head) and    *)
(* tail array.align(fa.tail, fb.tail); its total length is                 *)
(* max(len(fa), len(fb)), so it is never empty.                            *)
(***************************************************************************)
C4_NonEmptyArrayAlign ==
  (op = "align" /\ inst = "nonEmptyArray") =>
    /\ out.status = "ok"
    /\ out.val.head = both(fa.head, fb.head)
    /\ Value(out.val.tail) = Res(arrayAlign(fa.tail, fb.tail))
    /\ 1 + Len(out.val.tail) = Max(1 + Len(fa.tail), 1 + Len(fb.tail))
    /\ \A i \in 1..Len(out.val.tail) :
         out.val.tail[i] =
           IF i <= Len(fa.tail) /\ i <= Len(fb.tail) THEN both(fa.tail[i], fb.tail[i])
           ELSE IF i <= Len(fa.tail) THEN this_(fa.tail[i])
           ELSE that(fb.tail[i])

C4_Witness ==
  /\ op = "align" /\ inst = "nonEmptyArray"
  /\ Len(fa.tail) = 0 /\ Len(fb.tail) = 1
  /\ out.val = NonEmptyArray(both(fa.head, fb.head), <<that(fb.tail[1])>>)

(***************************************************************************)
(* C5.  For the four instances, alignWith(fa, fb, f) has the outcome of    *)
(* map(align(fa, fb), f), and align(fa, fb) the outcome of                 *)
(* alignWith(fa, fb, identity): the same value, or both throw.             *)
(***************************************************************************)
C5_AlignWithIsMapAlign ==
  /\ op = "alignWith" => out = mapRes(inst, Res(align(inst, fa, fb, KeyOrder)), f)
  /\ op = "align" => out = Res(alignWith(inst, fa, fb, identity, KeyOrder))

C5_Witness ==
  /\ op = "alignWith" /\ inst = "nonEmptyArray" /\ f = <<"weigh">>
  /\ Len(fa.tail) = 1 /\ Len(fb.tail) = 0
  /\ out.status = "ok"

(***************************************************************************)
(* C6.  For option, array and record: align(fa, nil()) is                  *)
(* map(fa, LeftOnly), align(nil(), fb) is map(fb, RightOnly), and          *)
(* align(nil(), nil()) is nil().                                           *)
(***************************************************************************)
C6_NilIdentity ==
  (op = "align" /\ inst \in AlignInstances) =>
    /\ fb = nil(inst) => out = Value(map(inst, fa, <<"this_">>))
    /\ fa = nil(inst) => out = Value(map(inst, fb, <<"that">>))
    /\ (fa = nil(inst) /\ fb = nil(inst)) => out = Value(nil(inst))

C6_Witness ==
  /\ op = "align" /\ inst = "record"
  /\ fa = nil(inst) /\ DOMAIN fb = Keys
  /\ out.status = "ok"

(***************************************************************************)
(* C7.  For the four instances, align(fa, fa) is map(fa, a => Both(a, a)). *)
(***************************************************************************)
C7_SelfAlign ==
  (op = "align" /\ fa = fb) => out = Value(map(inst, fa, <<"dup">>))

(***************************************************************************)
(* C8.  For the four instances and all f, g: align(map(fa, f), map(fb, g)) *)
(* has the outcome of map(align(fa, fb), t => bimap(t, f, g)).             *)
(***************************************************************************)
C8_Naturality ==
  op = "align" =>
    \A g \in ValFns, h \in ValFns :
      alignRes(inst, Value(map(inst, fa, g)), Value(map(inst, fb, h)))
        = mapRes(inst, out, <<"bimap", g, h>>)

C8_Witness ==
  /\ op = "align" /\ inst = "array"
  /\ Len(fa) = 1 /\ Len(fb) = 2
  /\ mapRes(inst, out, <<"bimap", <<"succ">>, <<"zero">>>>)
       = Value(<<both(V(fa[1].v + 1), V(0)), that(V(0))>>)

C10_Salign ==
  op = "salign" =>
    /\ out = Res(alignWith(inst, fa, fb, <<"sconcat">>, KeyOrder))
    /\ inst = "array" =>
         /\ out.status = "ok"
         /\ Len(out.val) = Max(Len(fa), Len(fb))
         /\ \A i \in 1..Len(out.val) :
              out.val[i] = IF i <= Len(fa) /\ i <= Len(fb) THEN V(fa[i].v + fb[i].v)
                           ELSE IF i <= Len(fa) THEN fa[i]
                           ELSE fb[i]
    /\ inst = "option" =>
         out = Value(IF isSome(fa) /\ isSome(fb) THEN some(V(fa.value.v + fb.value.v))
                     ELSE IF isSome(fa) THEN fa ELSE fb)

C10_Witness ==
  /\ op = "salign" /\ inst = "array"
  /\ fa = <<V(1), V(0)>> /\ fb = <<V(1)>>
  /\ out = Value(<<V(2), V(0)>>)

(***************************************************************************)
(* Helpers of the padding properties: the pair of optionals of an aligned  *)
(* position, the number of positions of a container, and the arguments of  *)
(* f at index i of lpadZipWith and of rpadZipWith.                         *)
(***************************************************************************)
optionalPair(t) ==
  CASE t.tag = "Both" -> <<some(t.l), some(t.r)>>
    [] t.tag = "This" -> <<some(t.l), none>>
    [] t.tag = "That" -> <<none, some(t.r)>>

positions(F, x) ==
  CASE F = "option" -> IF isSome(x) THEN 1 ELSE 0
    [] F = "array" -> Len(x)
    [] F = "record" -> Cardinality(DOMAIN x)

lpadArgs(xs, ys, i) == <<IF i <= Len(xs) THEN some(xs[i]) ELSE none, ys[i]>>

rpadArgs(xs, ys, i) == <<xs[i], IF i <= Len(ys) THEN some(ys[i]) ELSE none>>

keysIn(order, D) == LET Test(k) == k \in D IN SelectSeq(order, Test)

theseAt(ra, rb, k) ==
  IF k \in DOMAIN ra /\ k \in DOMAIN rb THEN both(ra[k], rb[k])
  ELSE IF k \in DOMAIN ra THEN this_(ra[k])
  ELSE that(rb[k])

(***************************************************************************)
(* C11.  padZipWith(F)(fa, fb, f) invokes f once per aligned position, in  *)
(* the order alignWith visits them, with (some a, some b) for Both(a, b),  *)
(* (some a, none) for LeftOnly(a) and (none, some b) for RightOnly(b),     *)
(* never with (none, none); its outcome is that of F.align(fa, fb) and,    *)
(* when that is a value, the result has its shape and holds f's result at  *)
(* every position.                                                         *)
(***************************************************************************)
C11_PadZipWith ==
  op = "padZipWith" =>
    \E order \in OrdersOf(inst) :
      LET al == align(inst, fa, fb, order)
      IN /\ calls = [i \in 1..Len(al.calls) |-> optionalPair(al.calls[i])]
         /\ \A i \in 1..Len(calls) : calls[i] # <<none, none>>
         /\ out.status = al.status
         /\ al.status = "ok" =>
              /\ Len(calls) = positions(inst, al.val)
              /\ positions(inst, out.val) = positions(inst, al.val)
              /\ CASE inst = "option" ->
                        /\ isSome(out.val) = isSome(al.val)
                        /\ isSome(al.val) =>
                             out.val.value = Apply(f, optionalPair(al.val.value))
                   [] inst = "array" ->
                        /\ Len(out.val) = Len(al.val)
                        /\ \A i \in 1..Len(al.val) :
                             out.val[i] = Apply(f, optionalPair(al.val[i]))
                   [] inst = "record" ->
                        /\ DOMAIN out.val = DOMAIN al.val
                        /\ \A k \in DOMAIN al.val :
                             out.val[k] = Apply(f, optionalPair(al.val[k]))

C11_Witness ==
  /\ op = "padZipWith" /\ inst = "array" /\ f = <<"pad">>
  /\ fa = <<V(1)>> /\ fb = <<V(0), V(1)>>
  /\ calls = <<<<some(V(1)), some(V(0))>>, <<none, some(V(1))>>>>
  /\ out = Value(<<V(1), V(17)>>)

(***************************************************************************)
(* C12.  padZip(F)(fa, fb) has the outcome of padZipWith(F)(fa, fb, pair). *)
(* A result holds at each position the pair whose left optional is some    *)
(* exactly when fa has an element there and whose right optional is some   *)
(* exactly when fb has; for arrays the length is max(len(fa), len(fb)),    *)
(* so every input element appears.                                         *)
(***************************************************************************)
C12_PadZip ==
  op = "padZip" =>
    /\ out = Res(padZipWith(inst, fa, fb, <<"tuple">>, KeyOrder))
    /\ inst = "array" =>
         /\ out.status = "ok"
         /\ Len(out.val) = Max(Len(fa), Len(fb))
         /\ \A i \in 1..Len(out.val) :
              out.val[i] = <<IF i <= Len(fa) THEN some(fa[i]) ELSE none,
                             IF i <= Len(fb) THEN some(fb[i]) ELSE none>>
    /\ inst = "option" =>
         out = Value(IF isNone(fa) /\ isNone(fb) THEN none ELSE some(<<fa, fb>>))
    /\ (inst = "record" /\ out.status = "ok") =>
         /\ DOMAIN out.val = DOMAIN fa \cup DOMAIN fb
         /\ \A k \in DOMAIN out.val :
              out.val[k] = <<IF k \in DOMAIN fa THEN some(fa[k]) ELSE none,
                             IF k \in DOMAIN fb THEN some(fb[k]) ELSE none>>

C12_Witness ==
  /\ op = "padZip" /\ inst = "array"
  /\ Len(fa) = 2 /\ Len(fb) = 1
  /\ out = Value(<<<<some(fa[1]), some(fb[1])>>, <<some(fa[2]), none>>>>)

(***************************************************************************)
(* C13.  lpadZipWith(xs, ys, f) has length len(ys); element i is           *)
(* f(some(xs[i]), ys[i]) for i < len(xs) and f(none, ys[i]) otherwise, in  *)
(* the order of ys, whatever f returns (undefined and none included);      *)
(* elements of xs beyond len(ys) are dropped and f is not invoked for      *)
(* them.  lpadZip(xs, ys) holds the pairs themselves.                      *)
(***************************************************************************)
C13_LpadZipWith ==
  op \in {"lpadZipWith", "lpadZip"} =>
    /\ out.status = "ok"
    /\ Len(out.val) = Len(fb)
    /\ \A i \in 1..Len(fb) : out.val[i] = Apply(f, lpadArgs(fa, fb, i))
    /\ calls = [i \in 1..Len(fb) |-> lpadArgs(fa, fb, i)]
    /\ op = "lpadZip" => out.val = [i \in 1..Len(fb) |-> lpadArgs(fa, fb, i)]

C13_Witness ==
  /\ op = "lpadZipWith" /\ f = <<"constNone">>
  /\ Len(fa) = 2 /\ Len(fb) = 1
  /\ out = Value(<<none>>)
  /\ calls = <<<<some(fa[1]), fb[1]>>>>

(***************************************************************************)
(* C14.  rpadZipWith(xs, ys, f) has the outcome of                         *)
(* lpadZipWith(ys, xs, (a, b) => f(b, a)); its length is len(xs) and       *)
(* element i is f(xs[i], some(ys[i])) for i < len(ys) and f(xs[i], none)   *)
(* otherwise.  rpadZip(xs, ys) holds the pairs themselves.                 *)
(***************************************************************************)
C14_RpadZipWith ==
  op \in {"rpadZipWith", "rpadZip"} =>
    /\ out = Res(lpadZipWith(fb, fa, <<"flip", f>>))
    /\ out.status = "ok"
    /\ Len(out.val) = Len(fa)
    /\ \A i \in 1..Len(fa) : out.val[i] = Apply(f, rpadArgs(fa, fb, i))
    /\ calls = [i \in 1..Len(fa) |-> rpadArgs(fa, fb, i)]
    /\ op = "rpadZip" => out.val = [i \in 1..Len(fa) |-> rpadArgs(fa, fb, i)]

C14_Witness ==
  /\ op = "rpadZip"
  /\ Len(fa) = 2 /\ Len(fb) = 1
  /\ out = Value(<<<<fa[1], some(fb[1])>>, <<fa[2], none>>>>)

(***************************************************************************)
(* C15.  Every operation returns a container value for every input: no     *)
(* call ends in an error.                                                  *)
(***************************************************************************)
C15_Total == op # "none" => out.status = "ok"

(***************************************************************************)
(* C16.  record.alignWith(m1, m2, f) invokes f exactly once per key of the *)
(* union of the key sets: first for the keys of m1 (Both or LeftOnly), in  *)
(* some order of them, then for the keys of m2 alone (RightOnly); the      *)
(* result holds, at every key of the union, f's result for that key.       *)
(***************************************************************************)
C16_RecordAlignWithOnce ==
  (op = "alignWith" /\ inst = "record") =>
    /\ Len(calls) = Cardinality(DOMAIN fa \cup DOMAIN fb)
    /\ \E o1 \in KeyOrders, o2 \in KeyOrders :
         LET k1 == keysIn(o1, DOMAIN fa)
             k2 == keysIn(o2, DOMAIN fb \ DOMAIN fa)
         IN calls = [i \in 1..Len(k1) |-> theseAt(fa, fb, k1[i])]
                      \o [i \in 1..Len(k2) |-> theseAt(fa, fb, k2[i])]
    /\ out.status = "ok"
    /\ DOMAIN out.val = DOMAIN fa \cup DOMAIN fb
    /\ \A k \in DOMAIN out.val : out.val[k] = Apply(f, theseAt(fa, fb, k))

(***************************************************************************)
(* C17.  For option, array and record, salign(F, S)(fx, F.nil()) is fx and *)
(* salign(F, S)(F.nil(), fx) is fx, and in neither call is the combining   *)
(* function handed a Both, so S.concat is not invoked.                     *)
(***************************************************************************)
C17_SalignNil ==
  op = "salign" =>
    /\ fb = nil(inst) =>
         (out = Value(fa) /\ \A i \in 1..Len(calls) : calls[i].tag # "Both")
    /\ fa = nil(inst) =>
         (out = Value(fb) /\ \A i \in 1..Len(calls) : calls[i].tag # "Both")

C17_Witness ==
  /\ op = "salign" /\ inst = "record"
  /\ fa = nil(inst) /\ DOMAIN fb = Keys
  /\ out = Value(fb)
  /\ Len(calls) = Cardinality(Keys)

(***************************************************************************)
(* C18.  For the four instances, align(fb, fa) has the outcome of          *)
(* map(align(fa, fb), swap); an array.align result never holds both a      *)
(* LeftOnly and a RightOnly.                                               *)
(***************************************************************************)
C18_Swap ==
  op = "align" =>
    /\ Res(align(inst, fb, fa, KeyOrder)) = mapRes(inst, out, <<"swap">>)
    /\ inst = "array" =>
         ~ \E i \in 1..Len(out.val), j \in 1..Len(out.val) :
             out.val[i].tag = "This" /\ out.val[j].tag = "That"

C18_Witness ==
  /\ op = "align" /\ inst = "nonEmptyArray"
  /\ Len(fa.tail) = 1 /\ Len(fb.tail) = 0
  /\ out.val.tail = <<this_(fa.tail[1])>>
  /\ Res(align(inst, fb, fa, KeyOrder))
       = Value(NonEmptyArray(both(fb.head, fa.head), <<that(fa.tail[1])>>))

====
